---- MODULE Spec2Model ----
(***************************************************************************)
(* FFControl of lib-gx.js: one instance, its socket(s), its command queue  *)
(* and the callers of connect().  Every action is one handler of the Node  *)
(* event loop run to completion (promise reactions included, since they    *)
(* run as microtasks before the next event is dispatched).                 *)
(***************************************************************************)
EXTENDS Integers, Sequences, FiniteSets, TLC

\* ---------------------------------------------------------------- bounds
MaxReplyLines == 1   \* Spec, SpecConn, SpecPipe: output lines of one reply
MaxCmds == 1         \* Spec: commands submitted over a run
MaxStray == 1        \* Spec: lines the device sends with nothing to answer
MaxRetryArg == 2     \* Spec: largest retryMax a caller passes (0 = none given)
ConnCmds == 1        \* SpecConn: commands submitted over a run
PipeCmds == 3        \* SpecPipe: commands submitted over a run
PipeStray == 1       \* SpecPipe: lines the device sends with nothing to answer
PipeRetryArg == 2    \* SpecPipe: the retryMax the caller passes
StatReplyLines == 5  \* SpecStat: output lines of one reply
PrintText == 1       \* SpecPrint: lines with text in the device's replies over a run
SendCmds == 2        \* SpecSend: calls of send() over a run
MaxNameLen == 4      \* SpecName: characters of the filename given to print()
MaxBlocks == 2       \* SpecFrame: toolpaths that fill up to this many blocks, and a byte more
MaxGcode == 2        \* SpecCodec: bytes of the toolpath
MaxBmp == 1          \* SpecCodec: bytes of the thumbnail

\* ------------------------------------------------------ program constants
DefaultRetries == 5  \* connect(): let retries = retryMax || 5
HeaderSize == 58     \* GXWriter: Buffer.alloc(58)
BlockSize == 4096    \* print(): the bytes of one block

\* nothing given to GXWriter
NoInput == [gcode |-> <<>>, bmp |-> <<>>, time |-> 0, filament |-> 0]

Calls == {1, 2}      \* the connect() invocations made on the instance
Hello == 0           \* the "~M601 S1" written by the connect handler
Stray == -1          \* tag of a line that answers nothing
Kinds == {"p", "ok0", "okN"}   \* no "ok" / "ok" at index 0 / "ok" at index > 0

VARIABLES
    state, queue, timer, next, output, status,   \* fields set by init()
    error,           \* this.error (never initialised, never cleared)
    socket,          \* this.socket: 0 = null, else the call whose socket it is
    pendingSend,     \* setTimeout(_send, 0) callbacks scheduled and not yet run
    sock,            \* per call: the net.Socket of its current _connect
    conn_error,      \* per call: conn_error of that socket's closure
    devq,            \* per call: what the device has received and not yet answered
    nrep, strays,    \* device: lines of the current reply, unsolicited lines so far
    cphase, retry, retries, cerr,   \* connect(): closure and promise of each call
    attempts, lastErr,  \* history: _connect invocations / the last rejection, per call
    given, issuedIn, \* history: the retryMax passed / this.state when connect() was called
    ncmd,            \* commands enqueued so far
    nsub,            \* of these, the ones submitted by the caller directly
    enqAt,           \* history: per command, the connection it was enqueued on (0 = none)
    atClose,         \* history: commands enqueued on a connection and still queued when
                     \* its socket closed, since the last init()
    wrote,           \* history: commands handed to socket.write, in order
    cbs,             \* history: callback invocations, in order
    heard,           \* history: lines received since the previous terminal line
    meta,            \* history: per command, the operation that enqueued it and what it is
    gs, gsId, gsRes, \* getStatus(): the step awaited (0 = none), its command, its promise
    gsErr,           \* getStatus(): what its promise was rejected with
    prRes, prVal,    \* print(): its promise, and what it was settled with
    cmd_err, cmd_out,  \* print(): the first error remembered, the output gathered
    clRes, clErr,    \* close(): its promise, and what it was rejected with
    clId,            \* close(): the M602 of its release() while awaited, else 0
    ended,           \* history: socket.end() has been called
    gxin,            \* the gcode, bmp, time and filament given to GXWriter
    buffer,          \* print(): the GXWriter output being sent, <<>> before
    blocks, framed,  \* print(): the blocks built so far / the block loop has ended
    file,            \* the bytes of the file GXReader is given
    rbuf, struct,    \* GXReader: this.buf and <<this.struct>>, <<>> before
    thrown,          \* GXReader: what its constructor threw
    extracted,       \* GXReader.extract(): <<the .bmp written, the .gcode written>>
    atAnomaly,       \* history: the commands queued when a reply with no command was logged
    prArg,           \* history: the filename and the container length print() was given,
                     \* and the first command it enqueued
    ntext,           \* device: lines with text sent in replies, where lim.text bounds them
    ev,              \* the handler that ran last
    lim              \* the run's budget: calls, commands, stray and reply lines, retryMax

fields == <<state, queue, timer, next, output, status>>
callvars == <<cphase, retry, retries, cerr, attempts, lastErr, given, issuedIn>>
sockvars == <<sock, conn_error, devq, nrep, strays, heard>>
cmdvars == <<ncmd, nsub, wrote, cbs, enqAt, atClose, meta>>
gsvars == <<gs, gsId, gsRes, gsErr>>
prvars == <<prRes, prVal, cmd_err, cmd_out>>
clvars == <<clRes, clErr, clId, ended>>
gxvars == <<gxin, buffer, blocks, framed, file, rbuf, struct, thrown, extracted>>
vars == <<state, queue, timer, next, output, status, error, socket, pendingSend,
          sock, conn_error, devq, nrep, strays, cphase, retry, retries, cerr,
          attempts, lastErr, given, issuedIn, ncmd, nsub, enqAt, atClose, wrote,
          cbs, heard, meta, gs, gsId, gsRes, gsErr, prRes, prVal, cmd_err, cmd_out,
          prArg, clRes, clErr, clId, ended, ntext, ev, gxvars, atAnomaly, lim>>

Ev(op, c, r) == [op |-> op, c |-> c, r |-> r]

\* FFControl.init(): the values it assigns
init ==
    [state |-> "Disconnected", queue |-> <<>>, timer |-> FALSE, next |-> 0,
     output |-> <<>>, status |-> "offline"]

\* new FFControl(), nothing called yet
Start ==
    /\ state = init.state
    /\ queue = init.queue
    /\ timer = init.timer
    /\ next = init.next
    /\ output = init.output
    /\ status = init.status
    /\ error = "none"
    /\ socket = 0
    /\ pendingSend = 0
    /\ sock = [c \in Calls |-> "none"]
    /\ conn_error = [c \in Calls |-> "null"]
    /\ devq = [c \in Calls |-> <<>>]
    /\ nrep = 0
    /\ strays = 0
    /\ cphase = [c \in Calls |-> "idle"]
    /\ retry = [c \in Calls |-> 0]
    /\ retries = [c \in Calls |-> 0]
    /\ cerr = [c \in Calls |-> "none"]
    /\ attempts = [c \in Calls |-> 0]
    /\ lastErr = [c \in Calls |-> "none"]
    /\ given = [c \in Calls |-> 0]
    /\ issuedIn = [c \in Calls |-> "none"]
    /\ ncmd = 0
    /\ nsub = 0
    /\ enqAt = <<>>
    /\ atClose = {}
    /\ atAnomaly = {}
    /\ wrote = <<>>
    /\ cbs = <<>>
    /\ heard = <<>>
    /\ gs = 0
    /\ gsId = 0
    /\ gsRes = "none"
    /\ gsErr = "none"
    /\ prRes = "none"
    /\ prVal = <<>>
    /\ cmd_err = "null"
    /\ cmd_out = <<>>
    /\ prArg = <<>>
    /\ clRes = "none"
    /\ clErr = "none"
    /\ clId = 0
    /\ ended = FALSE
    /\ buffer = <<>>
    /\ blocks = <<>>
    /\ framed = FALSE
    /\ rbuf = <<>>
    /\ struct = <<>>
    /\ thrown = "none"
    /\ extracted = <<>>
    /\ ntext = 0
    /\ meta = <<>>
    /\ ev = Ev("new", 0, "")

\* --------------------------------------------------------------- connect

\* the retry test with > for >= : one attempt too many
exhaustedOffByOne(n, max) == n > max

\* if (++retry >= retries)
exhausted(n, max) == n >= max

\* the .catch of attempt(): count the retry, give up or arm the 2 s timer
Catch(c, e) ==
    /\ retry' = [retry EXCEPT ![c] = @ + 1]
    /\ lastErr' = [lastErr EXCEPT ![c] = e]
    /\ IF exhausted(retry[c] + 1, retries'[c])
       THEN /\ cphase' = [cphase EXCEPT ![c] = "rejected"]
            /\ cerr' = [cerr EXCEPT ![c] = e]
       ELSE /\ cphase' = [cphase EXCEPT ![c] = "waiting"]
            /\ cerr' = cerr

\* the state checks of _connect with the Connecting one left out
busyOnlyConnected(st) ==
    IF st = "Connected" THEN "already connected" ELSE "none"

\* the state checks of _connect: what it rejects with, "none" to go on
busy(st) ==
    IF st = "Connecting" THEN "already connecting"
    ELSE IF st = "Connected" THEN "already connected" ELSE "none"

\* _connect(host, port) called by attempt() of call c
_connect(c) ==
    /\ attempts' = [attempts EXCEPT ![c] = @ + 1]
    /\ IF busy(state) # "none"
       THEN /\ Catch(c, busy(state))
            /\ UNCHANGED <<fields, socket, sock, conn_error, atClose>>
       ELSE /\ state' = "Connecting"
            /\ queue' = init.queue
            /\ timer' = init.timer
            /\ next' = init.next
            /\ output' = init.output
            /\ status' = init.status
            /\ socket' = 0
            /\ sock' = [sock EXCEPT ![c] = "connecting"]
            /\ conn_error' = [conn_error EXCEPT ![c] = "null"]
            /\ cphase' = [cphase EXCEPT ![c] = "attempting"]
            /\ atClose' = {}
            /\ UNCHANGED <<retry, cerr, lastErr>>

\* what the last _connect of call c did, for ev
Outcome(c) == IF busy(state) = "none" THEN "socket" ELSE busy(state)

\* connect(host, port, retryMax): the first attempt() runs inside the call
connect(c, retryMax) ==
    /\ c <= lim.calls
    /\ cphase[c] = "idle"
    /\ IF c = 1 THEN TRUE ELSE cphase[c - 1] # "idle"
    /\ retries' = [retries EXCEPT ![c] = IF retryMax # 0 THEN retryMax ELSE DefaultRetries]
    /\ given' = [given EXCEPT ![c] = retryMax]
    /\ issuedIn' = [issuedIn EXCEPT ![c] = state]
    /\ _connect(c)
    /\ ev' = Ev("connect", c, Outcome(c))
    /\ UNCHANGED <<error, pendingSend, devq, nrep, strays, heard, ncmd, nsub, wrote,
                   cbs, enqAt, meta, gsvars, prvars, ntext, prArg, clvars, gxvars, atAnomaly, lim>>

\* setTimeout(attempt, timeout) fires
RetryTimer(c) ==
    /\ cphase[c] = "waiting"
    /\ UNCHANGED <<retries, given, issuedIn>>
    /\ _connect(c)
    /\ ev' = Ev("retry", c, Outcome(c))
    /\ UNCHANGED <<error, pendingSend, devq, nrep, strays, heard, ncmd, nsub, wrote,
                   cbs, enqAt, meta, gsvars, prvars, ntext, prArg, clvars, gxvars, atAnomaly, lim>>

\* --------------------------------------------------------------- sending

\* _sendTimer() called with this.timer = tm and this.queue = q
_sendTimer(tm, q) ==
    /\ timer' = (tm \/ Len(q) > 0)
    /\ pendingSend' = pendingSend + (IF ~tm /\ Len(q) > 0 THEN 1 ELSE 0)

\* socket.write(cmd) on this.socket: the device receives it if the socket is open
Write(id) ==
    /\ wrote' = Append(wrote, id)
    /\ devq' = IF socket # 0 /\ sock[socket] = "open"
               THEN [devq EXCEPT ![socket] = Append(@, id)]
               ELSE devq

\* next.reject(e) and next.resolve(out), as recorded in cbs
Fail(id, e) == [id |-> id, kind |-> "fail", out |-> <<>>, err |-> e,
                heard |-> <<>>, term |-> <<"p", Stray>>]
Ok(id, out, h, line) == [id |-> id, kind |-> "ok", out |-> out, err |-> "",
                         heard |-> h, term |-> line]

\* getStatus(): the .catch of its chain, run when the send() of command id rejects
statusCatch(id, e) ==
    IF id = gsId
    THEN gs' = 0 /\ gsId' = 0 /\ gsRes' = "rejected" /\ gsErr' = e
    ELSE UNCHANGED gsvars

\* print(): a promise settles once, later resolve/reject calls do nothing
printSettle(res, val) ==
    IF prRes = "pending"
    THEN prRes' = res /\ prVal' = val
    ELSE UNCHANGED <<prRes, prVal>>

\* print(): cmd_ok of a step, or the success callback of the final M27
printOk(id, out) ==
    IF meta[id].by # "print" THEN UNCHANGED prvars
    ELSE IF meta[id].last
    THEN /\ IF cmd_err # "null"
            THEN printSettle("rejected", <<cmd_err>>)
            ELSE printSettle("resolved", <<meta[id - 1].arg[1], cmd_out>>)
         /\ UNCHANGED <<cmd_err, cmd_out>>
    ELSE /\ cmd_out' = cmd_out \o out
         /\ UNCHANGED <<prRes, prVal, cmd_err>>

\* print(): cmd_fail of a step, or the failure callback of the final M27
printFail(id, e) ==
    IF meta[id].by # "print" THEN UNCHANGED prvars
    ELSE IF meta[id].last
    THEN /\ printSettle("rejected", <<IF cmd_err # "null" THEN cmd_err ELSE e>>)
         /\ UNCHANGED <<cmd_err, cmd_out>>
    ELSE /\ cmd_err' = IF cmd_err = "null" THEN e ELSE cmd_err
         /\ UNCHANGED <<prRes, prVal, cmd_out>>

\* close(): the .catch of its chain, run when the send() of release() rejects
closeCatch(id, e) ==
    IF id = clId
    THEN clRes' = "rejected" /\ clErr' = e /\ clId' = 0 /\ ended' = ended
    ELSE UNCHANGED clvars

\* close(): the .then of release(), which runs _close(): this.socket.end() in a
\* try (this.socket null: a TypeError, caught); the device closes its side
\* without sending any more
closeThen ==
    IF socket = 0
    THEN /\ clRes' = "rejected"
         /\ clErr' = "TypeError"
         /\ clId' = 0
         /\ UNCHANGED <<ended, sock>>
    ELSE /\ clRes' = "resolved"
         /\ clId' = 0
         /\ ended' = TRUE
         /\ sock' = [sock EXCEPT ![socket] = IF @ = "open" THEN "closing" ELSE @]
         /\ clErr' = clErr

\* _send()
_send ==
    LET nxt == IF queue = <<>> THEN 0 ELSE Head(queue)
        err == IF state # "Connected" THEN "disconnected" ELSE error
    IN  /\ queue' = IF queue = <<>> THEN queue ELSE Tail(queue)
        /\ error' = err
        /\ IF nxt = 0
           THEN UNCHANGED <<next, cbs, wrote, devq, gsvars, prvars, clvars>>
           ELSE IF err # "none"
           THEN /\ cbs' = Append(cbs, Fail(nxt, err))
                /\ statusCatch(nxt, err)
                /\ printFail(nxt, err)
                /\ closeCatch(nxt, err)
                /\ UNCHANGED <<next, wrote, devq>>
           ELSE /\ next' = nxt
                /\ Write(nxt)
                /\ UNCHANGED <<cbs, gsvars, prvars, clvars>>

\* the zero-delay timer armed by _sendTimer fires
FireSend ==
    /\ pendingSend > 0
    /\ pendingSend' = pendingSend - 1
    /\ _send
    /\ ev' = Ev("_send", 0, "")
    /\ UNCHANGED <<state, timer, output, status, socket, sock, conn_error, nrep,
                   strays, heard, callvars, ncmd, nsub, enqAt, atClose, meta, ntext, prArg, gxvars, atAnomaly, lim>>

\* a command the caller submits itself
User == [by |-> "user", name |-> "", idx |-> 0, arg |-> <<>>, last |-> FALSE]

\* getStatus() asking for the progress before the machine status
StatusCmdSwapped(k) ==
    [by |-> "getStatus",
     name |-> CASE k = 1 -> "M115" [] k = 2 -> "M27" [] k = 3 -> "M119" [] OTHER -> "M105",
     idx |-> 0, arg |-> <<>>, last |-> FALSE]

\* getStatus(): the command of step k
StatusCmd(k) ==
    [by |-> "getStatus",
     name |-> CASE k = 1 -> "M115" [] k = 2 -> "M119" [] k = 3 -> "M27" [] OTHER -> "M105",
     idx |-> 0, arg |-> <<>>, last |-> FALSE]

\* queue.push + _sendTimer, shared by sendCommand and sendBuffer
Enqueue(m) ==
    /\ ncmd' = ncmd + 1
    /\ meta' = Append(meta, m)
    /\ enqAt' = Append(enqAt, IF state = "Connected" THEN socket ELSE 0)
    /\ queue' = Append(queue, ncmd + 1)
    /\ _sendTimer(timer, queue')

\* sendCommand(cmd, resolve, reject) called directly, as print() does
sendCommand ==
    /\ nsub < lim.cmds
    /\ nsub' = nsub + 1
    /\ Enqueue(User)
    /\ ev' = Ev("sendCommand", 0, "")
    /\ UNCHANGED <<state, next, output, status, error, socket, sockvars, callvars,
                   wrote, cbs, atClose, gsvars, prvars, ntext, prArg, clvars, gxvars, atAnomaly, lim>>

\* sendBuffer(buf, resolve, reject) called directly, as print() does
sendBuffer ==
    /\ nsub < lim.cmds
    /\ nsub' = nsub + 1
    /\ Enqueue(User)
    /\ ev' = Ev("sendBuffer", 0, "")
    /\ UNCHANGED <<state, next, output, status, error, socket, sockvars, callvars,
                   wrote, cbs, atClose, gsvars, prvars, ntext, prArg, clvars, gxvars, atAnomaly, lim>>

\* send(cmd) without the test of this.error
sendCheckStateOnly(err, st) ==
    IF st # "Connected" THEN "not connected" ELSE "queued"

\* send(cmd) without the test of this.state
sendCheckErrorOnly(err, st) ==
    IF err # "none" THEN err ELSE "queued"

\* the executor of send(cmd): what it rejects with, "queued" when it enqueues
sendCheck(err, st) ==
    IF err # "none" THEN err
    ELSE IF st # "Connected" THEN "not connected" ELSE "queued"

\* send(cmd)
send ==
    /\ nsub < lim.cmds
    /\ IF sendCheck(error, state) = "queued"
       THEN nsub' = nsub + 1 /\ Enqueue(User)
       ELSE UNCHANGED <<queue, timer, pendingSend, ncmd, nsub, enqAt, meta>>
    /\ ev' = Ev("send", 0, sendCheck(error, state))
    /\ UNCHANGED <<state, next, output, status, error, socket, sockvars, callvars,
                   wrote, cbs, atClose, gsvars, prvars, ntext, prArg, clvars, gxvars, atAnomaly, lim>>

\* getStatus(): the call itself, which runs send(COMMAND.GetInfo)
getStatus ==
    /\ lim.status
    /\ gsRes = "none"
    /\ IF sendCheck(error, state) = "queued"
       THEN /\ Enqueue(StatusCmd(1))
            /\ gs' = 1
            /\ gsId' = ncmd + 1
            /\ gsRes' = "pending"
            /\ gsErr' = gsErr
       ELSE /\ gs' = 0
            /\ gsId' = 0
            /\ gsRes' = "rejected"
            /\ gsErr' = sendCheck(error, state)
            /\ UNCHANGED <<queue, timer, pendingSend, ncmd, enqAt, meta>>
    /\ nsub' = nsub
    /\ ev' = Ev("getStatus", 0, sendCheck(error, state))
    /\ UNCHANGED <<state, next, output, status, error, socket, sockvars, callvars,
                   wrote, cbs, atClose, prvars, ntext, prArg, clvars, gxvars, atAnomaly, lim>>

\* getStatus(): whether the .then of step k parses its reply without throwing
\* (wf: every token of the temperature line has a ':')
parses(k, lines, wf) ==
    CASE k = 1 -> Len(lines) >= 6
      [] k = 2 -> TRUE
      [] k = 3 -> Len(lines) >= 2
      [] OTHER -> Len(lines) >= 2 /\ wf

\* getStatus(): the .then run when the command of step gs resolves with lines;
\* st, tm, p are this.state, this.timer and the timers pending after the line handler
statusThen(lines, wf, st, tm, p) ==
    IF ~parses(gs, lines, wf) \/ (gs < 4 /\ sendCheck(error, st) # "queued")
    THEN /\ gs' = 0
         /\ gsId' = 0
         /\ gsRes' = "rejected"
         /\ gsErr' = IF parses(gs, lines, wf) THEN sendCheck(error, st) ELSE "TypeError"
         /\ timer' = tm
         /\ pendingSend' = p
         /\ UNCHANGED <<queue, ncmd, enqAt, meta, status>>
    ELSE IF gs = 4
    THEN /\ status' = "known"
         /\ gs' = 0
         /\ gsId' = 0
         /\ gsRes' = "resolved"
         /\ timer' = tm
         /\ pendingSend' = p
         /\ UNCHANGED <<queue, ncmd, enqAt, meta, gsErr>>
    ELSE /\ queue' = Append(queue, ncmd + 1)
         /\ ncmd' = ncmd + 1
         /\ enqAt' = Append(enqAt, IF st = "Connected" THEN socket ELSE 0)
         /\ meta' = Append(meta, StatusCmd(gs + 1))
         /\ timer' = TRUE
         /\ pendingSend' = p + (IF tm THEN 0 ELSE 1)
         /\ gs' = gs + 1
         /\ gsId' = ncmd + 1
         /\ UNCHANGED <<gsRes, gsErr, status>>

\* release(): its command
ReleaseCmd == [by |-> "close", name |-> "M602", idx |-> 0, arg |-> <<>>, last |-> FALSE]

\* close(): the call itself, which runs release(), that is send(COMMAND.Release)
close ==
    /\ clRes = "none"
    /\ IF sendCheck(error, state) = "queued"
       THEN /\ Enqueue(ReleaseCmd)
            /\ clId' = ncmd + 1
            /\ clRes' = "pending"
            /\ clErr' = clErr
       ELSE /\ clId' = 0
            /\ clRes' = "rejected"
            /\ clErr' = sendCheck(error, state)
            /\ UNCHANGED <<queue, timer, pendingSend, ncmd, enqAt, meta>>
    /\ ev' = Ev("close", 0, sendCheck(error, state))
    /\ UNCHANGED <<state, next, output, status, error, socket, sockvars, callvars, nsub,
                   wrote, cbs, atClose, gsvars, prvars, ntext, prArg, ended, gxvars, atAnomaly, lim>>

\* ------------------------------------------------------------------ print

\* filenames are sequences of characters; ".gx" as one
Gx == <<".", "g", "x">>

\* filename.indexOf(".gx")
indexOfGx(f) ==
    LET hits == {i \in 1..(Len(f) - 2) : SubSeq(f, i, i + 2) = Gx}
    IN  IF hits = {} THEN -1 ELSE (CHOOSE i \in hits : \A j \in hits : i <= j) - 1

\* print(): if (filename.indexOf(".gx") < 0) filename = filename + ".gx"
withExt(f) == IF indexOfGx(f) < 0 THEN f \o Gx ELSE f

\* print(): " 0:/user/" + (filename || "noname.gx"), the prefix as one element
devicePath(f) ==
    <<" 0:/user/">> \o (IF f = <<>> THEN <<"n", "o", "n", "a", "m", "e">> \o Gx ELSE f)

\* print(): Math.floor in place of Math.ceil
slicesFloor(L) == L \div BlockSize

\* print(): Math.ceil(buffer.length / 4096)
slices(L) == (L + BlockSize - 1) \div BlockSize

\* print(): chunk.length of block slice of a buffer of L bytes
chunkLen(L, slice) ==
    IF L - slice * BlockSize < BlockSize THEN L - slice * BlockSize ELSE BlockSize

PrintCmd(name, idx, arg, last) ==
    [by |-> "print", name |-> name, idx |-> idx, arg |-> arg, last |-> last]

\* print() starting the print before the blocks are sent
printCmdsStartFirst(filename, L) ==
    LET path == devicePath(withExt(filename))
    IN  <<PrintCmd("M115", 0, <<>>, FALSE), PrintCmd("M650", 0, <<>>, FALSE),
          PrintCmd("M115", 0, <<>>, FALSE), PrintCmd("M114", 0, <<>>, FALSE),
          PrintCmd("M27", 0, <<>>, FALSE), PrintCmd("M119", 0, <<>>, FALSE),
          PrintCmd("M105", 0, <<>>, FALSE), PrintCmd("M28", 0, <<L, path>>, FALSE),
          PrintCmd("M23", 0, <<path>>, FALSE)>>
        \o [i \in 1..slices(L) |-> PrintCmd("block", i - 1, <<chunkLen(L, i - 1)>>, FALSE)]
        \o <<PrintCmd("M29", 0, <<>>, FALSE), PrintCmd("M27", 0, <<>>, TRUE)>>

\* print(): the commands and blocks it enqueues, in the order of its calls
printCmds(filename, L) ==
    LET path == devicePath(withExt(filename))
    IN  <<PrintCmd("M115", 0, <<>>, FALSE), PrintCmd("M650", 0, <<>>, FALSE),
          PrintCmd("M115", 0, <<>>, FALSE), PrintCmd("M114", 0, <<>>, FALSE),
          PrintCmd("M27", 0, <<>>, FALSE), PrintCmd("M119", 0, <<>>, FALSE),
          PrintCmd("M105", 0, <<>>, FALSE), PrintCmd("M28", 0, <<L, path>>, FALSE)>>
        \o [i \in 1..slices(L) |-> PrintCmd("block", i - 1, <<chunkLen(L, i - 1)>>, FALSE)]
        \o <<PrintCmd("M29", 0, <<>>, FALSE), PrintCmd("M23", 0, <<path>>, FALSE),
              PrintCmd("M27", 0, <<>>, TRUE)>>

\* print(filename, gcode, bmp, time, filament), L the length of the GXWriter output
print(filename, L) ==
    /\ prRes = "none"
    /\ LET cmds == printCmds(filename, L)
           k == Len(cmds)
       IN  /\ ncmd' = ncmd + k
           /\ meta' = meta \o cmds
           /\ enqAt' = enqAt \o [i \in 1..k |-> IF state = "Connected" THEN socket ELSE 0]
           /\ queue' = queue \o [i \in 1..k |-> ncmd + i]
           /\ _sendTimer(timer, queue')
    /\ prRes' = "pending"
    /\ prArg' = <<filename, L, ncmd + 1>>
    /\ ev' = Ev("print", 0, "")
    /\ UNCHANGED <<state, next, output, status, error, socket, sockvars, callvars, nsub,
                   wrote, cbs, atClose, gsvars, prVal, cmd_err, cmd_out, ntext, clvars,
                   gxvars, atAnomaly, lim>>

\* ---------------------------------------------------------- socket events

\* on("connect")
SockConnect(c) ==
    /\ sock[c] = "connecting"
    /\ sock' = [sock EXCEPT ![c] = "open"]
    /\ socket' = c
    /\ devq' = [devq EXCEPT ![c] = <<Hello>>]
    /\ nrep' = 0
    /\ heard' = <<>>
    /\ ev' = Ev("sock_connect", c, "")
    /\ UNCHANGED <<fields, error, pendingSend, conn_error, strays, callvars, cmdvars,
                   gsvars, prvars, ntext, prArg, clvars, gxvars, atAnomaly, lim>>

\* indexOf("ok") of a line that is taken for a terminal one whatever it holds
okidxAlways(line) == 0

\* line.indexOf("ok"): -1, 0, or some index > 0
okidx(line) == IF line[1] = "ok0" THEN 0 ELSE IF line[1] = "okN" THEN 1 ELSE -1

\* on("line") of the socket of call c
lineHandler(c, line, wf) ==
    IF okidx(line) >= 0
    THEN LET newconn == state = "Connecting"
             st == IF newconn THEN "Connected" ELSE state
             out == IF newconn THEN output
                    ELSE IF okidx(line) > 0 THEN Append(output, line) ELSE output
             tm == Len(queue) > 0
             p == pendingSend + (IF Len(queue) > 0 THEN 1 ELSE 0)
         IN  /\ state' = st
             /\ cphase' = IF newconn /\ cphase[c] = "attempting"
                          THEN [cphase EXCEPT ![c] = "resolved"] ELSE cphase
             /\ output' = <<>>
             /\ IF next # 0
                THEN /\ cbs' = Append(cbs, Ok(next, out, heard, line))
                     /\ printOk(next, out)
                     /\ next' = 0
                ELSE UNCHANGED <<cbs, next, prvars>>
             /\ IF next # 0 /\ next = clId
                THEN closeThen
                ELSE UNCHANGED <<clvars, sock>>
             /\ IF next # 0 /\ next = gsId
                THEN statusThen(out, wf, st, tm, p)
                ELSE /\ timer' = tm
                     /\ pendingSend' = p
                     /\ UNCHANGED <<queue, ncmd, enqAt, meta, status, gsvars>>
    ELSE /\ output' = Append(output, line)
         /\ UNCHANGED <<state, cphase, cbs, next, timer, pendingSend, queue, ncmd,
                        enqAt, meta, status, gsvars, prvars, clvars, sock>>

\* the line handler's console.log({reply_no_cmd}): an "ok" line, no command in
\* flight, and not the "ok" that ends the handshake
reply_no_cmd(line) == okidx(line) >= 0 /\ next = 0 /\ state # "Connecting"

\* the device sends one line: part of the reply to the oldest command it has
\* received, or an unsolicited line when it has nothing to answer
Line(c, kind, wf) ==
    /\ sock[c] = "open"
    /\ LET solicited == devq[c] # <<>>
           line == <<kind, IF solicited THEN Head(devq[c]) ELSE Stray>>
           text == solicited /\ kind # "ok0" /\ lim.text > 0
       IN  /\ IF solicited THEN kind # "p" \/ nrep < lim.reply
                           ELSE strays < lim.stray
           /\ text => ntext < lim.text
           /\ ntext' = IF text THEN ntext + 1 ELSE ntext
           /\ devq' = IF solicited /\ kind # "p"
                      THEN [devq EXCEPT ![c] = Tail(@)] ELSE devq
           /\ nrep' = IF ~solicited THEN nrep ELSE IF kind # "p" THEN 0 ELSE nrep + 1
           /\ strays' = IF solicited THEN strays ELSE strays + 1
           /\ heard' = IF kind # "p" THEN <<>> ELSE Append(heard, line)
           /\ atAnomaly' = IF reply_no_cmd(line)
                           THEN atAnomaly \cup {queue[k] : k \in DOMAIN queue}
                           ELSE atAnomaly
           /\ lineHandler(c, line, wf)
           /\ ev' = Ev("line", c, kind)
    /\ UNCHANGED <<error, socket, conn_error, retry, retries, cerr, attempts,
                   lastErr, given, issuedIn, nsub, wrote, atClose, prArg, gxvars, lim>>

\* on("error"): Node destroys the socket after emitting it, "close" follows
SockError(c) ==
    /\ sock[c] \in {"connecting", "open"}
    /\ conn_error' = [conn_error EXCEPT ![c] = "sockerr"]
    /\ sock' = [sock EXCEPT ![c] = "closing"]
    /\ ev' = Ev("sock_error", c, "")
    /\ UNCHANGED <<fields, error, socket, pendingSend, devq, nrep, strays, heard,
                   callvars, cmdvars, gsvars, prvars, ntext, prArg, clvars, gxvars, atAnomaly, lim>>

\* the inactivity timeout (1 s before, 5 s after connect): socket.destroy()
SockTimeout(c) ==
    /\ sock[c] \in {"connecting", "open"}
    /\ sock' = [sock EXCEPT ![c] = "closing"]
    /\ ev' = Ev("sock_timeout", c, "")
    /\ UNCHANGED <<fields, error, socket, pendingSend, conn_error, devq, nrep, strays,
                   heard, callvars, cmdvars, gsvars, prvars, ntext, prArg, clvars, gxvars, atAnomaly, lim>>

\* on("end"): the device closed its side, "close" follows
SockEnd(c) ==
    /\ sock[c] = "open"
    /\ sock' = [sock EXCEPT ![c] = "closing"]
    /\ ev' = Ev("sock_end", c, "")
    /\ UNCHANGED <<fields, error, socket, pendingSend, conn_error, devq, nrep, strays,
                   heard, callvars, cmdvars, gsvars, prvars, ntext, prArg, clvars, gxvars, atAnomaly, lim>>

\* a close handler that leaves this.state as it is
closedStateKept == state

\* this.state = State.Disconnected of the close handler
closedState == "Disconnected"

\* on("close")
SockClose(c) ==
    /\ sock[c] = "closing"
    /\ sock' = [sock EXCEPT ![c] = "none"]
    /\ devq' = [devq EXCEPT ![c] = <<>>]
    /\ state' = closedState
    /\ status' = "offline"
    /\ atClose' = atClose \cup {queue[k] : k \in {j \in DOMAIN queue : enqAt[queue[j]] = c}}
    /\ UNCHANGED <<retries, given, issuedIn>>
    /\ IF next # 0
       THEN /\ cbs' = Append(cbs, Fail(next, conn_error[c]))
            /\ statusCatch(next, conn_error[c])
            /\ printFail(next, conn_error[c])
            /\ closeCatch(next, conn_error[c])
            /\ next' = 0
            /\ UNCHANGED <<cphase, retry, cerr, lastErr>>
       ELSE /\ UNCHANGED <<cbs, next, gsvars, prvars, clvars>>
            /\ IF cphase[c] = "attempting"
               THEN Catch(c, IF conn_error[c] # "null" THEN conn_error[c] ELSE "close")
               ELSE UNCHANGED <<cphase, retry, cerr, lastErr>>
    /\ ev' = Ev("sock_close", c, "")
    /\ UNCHANGED <<queue, timer, output, error, socket, pendingSend, conn_error, nrep,
                   strays, heard, attempts, ncmd, nsub, wrote, enqAt, meta, ntext, prArg, gxvars, atAnomaly, lim>>

\* connect() and its retries, and the events of the sockets
NextSock ==
    \/ \E c \in Calls, r \in lim.args : connect(c, r)
    \/ \E c \in Calls : RetryTimer(c)
    \/ \E c \in Calls : SockConnect(c)
    \/ \E c \in Calls, k \in Kinds, wf \in BOOLEAN : Line(c, k, wf)
    \/ \E c \in Calls : SockError(c)
    \/ \E c \in Calls : SockTimeout(c)
    \/ \E c \in Calls : SockEnd(c)
    \/ \E c \in Calls : SockClose(c)
    \/ FireSend

\* the caller submits commands itself
Next ==
    \/ NextSock
    \/ sendCommand
    \/ sendBuffer
    \/ send

\* the caller prints a file once connected and calls nothing else
NextPrintOnly ==
    \/ NextSock
    \/ state = "Connected" /\ \E f \in lim.names, L \in lim.lens : print(f, L)

\* the caller submits commands with send() only
NextSend == NextSock \/ send

\* the caller asks for the status
NextStat == NextSock \/ getStatus

\* --------------------------------------------- GXWriter, GXReader, blocks

\* buffers are sequences of bytes

\* buf.slice(start, end), both clamped to the buffer
slice(buf, start, end) ==
    LET s == IF start > Len(buf) THEN Len(buf) ELSE start
        e == IF end > Len(buf) THEN Len(buf) ELSE end
    IN  IF e <= s THEN <<>> ELSE SubSeq(buf, s + 1, e)

\* buf.writeUInt32LE(v), buf.writeUInt16LE(v): the bytes written
writeUInt32LE(v) ==
    <<v % 256, (v \div 256) % 256, (v \div 65536) % 256, (v \div 16777216) % 256>>
writeUInt16LE(v) == <<v % 256, (v \div 256) % 256>>

\* buf.readUInt32LE(pos), pos + 4 within the buffer
readUInt32LE(buf, pos) ==
    buf[pos + 1] + 256 * buf[pos + 2] + 65536 * buf[pos + 3] + 16777216 * buf[pos + 4]

\* "xgcode 1.0\n\0\0\0\0\0"
Magic == <<120, 103, 99, 111, 100, 101, 32, 49, 46, 48, 10, 0, 0, 0, 0, 0>>

\* GXWriter writing the gcode offset without the thumbnail's length
gcodeOffsetNoBmp(bmp) == HeaderSize

\* GXWriter: 58 + bmp.length
gcodeOffset(bmp) == HeaderSize + Len(bmp)

\* GXWriter: x || 100
orDefault(x) == IF x = 0 THEN 100 ELSE x

\* GXWriter: the header
header(bmp, time, length) ==
    Magic \o writeUInt32LE(HeaderSize) \o writeUInt32LE(gcodeOffset(bmp))
          \o writeUInt32LE(gcodeOffset(bmp)) \o writeUInt32LE(orDefault(time))
          \o writeUInt32LE(orDefault(length)) \o writeUInt32LE(0)
          \o writeUInt16LE(1) \o writeUInt16LE(200) \o writeUInt16LE(20)
          \o writeUInt16LE(3) \o writeUInt16LE(60) \o writeUInt16LE(110)
          \o writeUInt16LE(220) \o writeUInt16LE(220) \o <<1>> \o <<1>>

\* a bmp argument is <<>> for null, else <<its bytes>>: if (bmp === null) bmp = Buffer.alloc(0)
bmpBytes(b) == IF b = <<>> THEN <<>> ELSE b[1]

\* new GXWriter(gcode, bmp, time, length).output
GXWriterOutput(gcode, bmp, time, length) ==
    header(bmpBytes(bmp), time, length) \o bmpBytes(bmp) \o gcode

\* print(): let buffer = new GXWriter(gcode, bmp, time, filament).output
GXWriter ==
    /\ buffer = <<>>
    /\ buffer' = GXWriterOutput(gxin.gcode, gxin.bmp, gxin.time, gxin.filament)
    /\ ev' = Ev("GXWriter", 0, "")
    /\ UNCHANGED <<fields, error, socket, pendingSend, sockvars, callvars, cmdvars, gsvars,
                   prvars, clvars, prArg, ntext, atAnomaly, gxin, blocks, framed, file, rbuf, struct,
                   thrown, extracted, lim>>

\* GXWriter.write(file)
write ==
    /\ buffer # <<>>
    /\ file # buffer
    /\ file' = buffer
    /\ ev' = Ev("write", 0, "")
    /\ UNCHANGED <<fields, error, socket, pendingSend, sockvars, callvars, cmdvars, gsvars,
                   prvars, clvars, prArg, ntext, atAnomaly, gxin, buffer, blocks, framed, rbuf, struct,
                   thrown, extracted, lim>>

\* buffer-crc32 is not part of the source: crc32.unsigned stands for a checksum
\* of the bytes and of their number, computed by halves
RECURSIVE crcFold(_, _, _)
crcFold(buf, lo, hi) ==
    IF lo > hi THEN 0
    ELSE IF lo = hi THEN buf[lo] + 1
    ELSE LET mid == (lo + hi) \div 2
         IN  (crcFold(buf, lo, mid) * 31 + crcFold(buf, mid + 1, hi) * 7 + 1) % 65521
crc32(buf) == crcFold(buf, 1, Len(buf))

\* uint32b(val): (val >> 24) & 0xff, (val >> 16) & 0xff, (val >> 8) & 0xff, val & 0xff
uint32b(val) ==
    <<(val \div 16777216) % 256, (val \div 65536) % 256, (val \div 256) % 256, val % 256>>

\* print(): the checksum of a block taken after the padding
blockCrcPadded(chunk, padded) == crc32(padded)

\* print(): let crc = crc32.unsigned(chunk), before the chunk is padded
blockCrc(chunk, padded) == crc32(chunk)

\* print(): Buffer.concat([chunk, Buffer.alloc(4096 - len).fill(0)]) when len < 4096
padded(chunk) ==
    IF Len(chunk) < BlockSize
    THEN chunk \o [i \in 1..(BlockSize - Len(chunk)) |-> 0]
    ELSE chunk

\* print(): the block of one turn of the loop
block(buf, sl) ==
    LET chunk == slice(buf, sl * BlockSize, sl * BlockSize + BlockSize)
    IN  <<90, 90, 165, 165>> \o uint32b(sl) \o uint32b(Len(chunk))
            \o uint32b(blockCrc(chunk, padded(chunk))) \o padded(chunk)

\* print(): one turn of the block loop, or its end
Block ==
    /\ buffer # <<>>
    /\ ~framed
    /\ IF Len(blocks) < slices(Len(buffer))
       THEN /\ blocks' = Append(blocks, block(buffer, Len(blocks)))
            /\ UNCHANGED framed
       ELSE /\ framed' = TRUE
            /\ UNCHANGED blocks
    /\ ev' = Ev("block", 0, "")
    /\ UNCHANGED <<fields, error, socket, pendingSend, sockvars, callvars, cmdvars, gsvars,
                   prvars, clvars, prArg, ntext, atAnomaly, gxin, buffer, file, rbuf, struct, thrown,
                   extracted, lim>>

\* String.prototype.trim() on the bytes of an ASCII string
WhiteSpace == {9, 10, 11, 12, 13, 32}
trim(str) ==
    LET keep == {i \in 1..Len(str) : str[i] \notin WhiteSpace}
    IN  IF keep = {} THEN <<>>
        ELSE SubSeq(str, CHOOSE i \in keep : \A j \in keep : i <= j,
                         CHOOSE i \in keep : \A j \in keep : i >= j)

\* GXReader: the offsets and sizes of its u32(), u16() and u8() reads, in order
Reads ==
    [i \in 1..6 |-> <<12 + 4 * i, 4>>] \o [i \in 1..8 |-> <<38 + 2 * i, 2>>]
        \o <<<<56, 1>>, <<57, 1>>>>

\* new GXReader(file): a read past the end of the buffer throws a RangeError
GXReader ==
    /\ rbuf = <<>> /\ thrown = "none"
    /\ rbuf' = file
    /\ IF \E i \in DOMAIN Reads : Reads[i][1] + Reads[i][2] > Len(file)
       THEN /\ thrown' = "RangeError"
            /\ UNCHANGED struct
       ELSE /\ struct' = <<[magic |-> trim(slice(file, 0, 16)),
                           bmpoff |-> readUInt32LE(file, 16),
                           gc1off |-> readUInt32LE(file, 20),
                           gc2off |-> readUInt32LE(file, 24),
                           prsecs |-> readUInt32LE(file, 28),
                           prfila |-> readUInt32LE(file, 32),
                           index |-> Reads[Len(Reads)][1] + Reads[Len(Reads)][2]]>>
            /\ UNCHANGED thrown
    /\ ev' = Ev("GXReader", 0, "")
    /\ UNCHANGED <<fields, error, socket, pendingSend, sockvars, callvars, cmdvars, gsvars,
                   prvars, clvars, prArg, ntext, atAnomaly, gxin, buffer, blocks, framed, file,
                   extracted, lim>>

\* GXReader.extract()
extract ==
    /\ struct # <<>>
    /\ extracted = <<>>
    /\ extracted' = <<slice(rbuf, struct[1].bmpoff, struct[1].gc1off),
                      slice(rbuf, struct[1].gc1off, Len(rbuf))>>
    /\ ev' = Ev("extract", 0, "")
    /\ UNCHANGED <<fields, error, socket, pendingSend, sockvars, callvars, cmdvars, gsvars,
                   prvars, clvars, prArg, ntext, atAnomaly, gxin, buffer, blocks, framed, file, rbuf,
                   struct, thrown, lim>>

\* a toolpath is encoded and framed; a file is written, decoded and extracted
NextGx == GXWriter \/ write \/ Block \/ GXReader \/ extract

\* the caller submits commands and closes the connection
NextClose == Next \/ close

\* destination filenames: every string of these characters up to MaxNameLen
NameChars == {"a", ".", "g", "x"}
Names == UNION {[1..n -> NameChars] : n \in 0..MaxNameLen}

\* the caller's first call is a print() of a one-block file under any name
NextName == \E f \in Names : print(f, HeaderSize + 1)

\* the caller prints a file once connected, and sends a command of its own
NextPrint ==
    \/ NextSock
    \/ state = "Connected" /\ \E f \in lim.names, L \in lim.lens : print(f, L)
    \/ send

\* one caller, any retryMax, commands and stray lines
Init ==
    /\ Start
    /\ gxin = NoInput
    /\ file = <<>>
    /\ lim = [calls |-> 1, cmds |-> MaxCmds, stray |-> MaxStray, reply |-> MaxReplyLines,
              args |-> 0..MaxRetryArg, status |-> FALSE, text |-> 0]

\* two callers passing retryMax 1 or 2, no stray line
InitConn ==
    /\ Start
    /\ gxin = NoInput
    /\ file = <<>>
    /\ lim = [calls |-> 2, cmds |-> ConnCmds, stray |-> 0, reply |-> MaxReplyLines,
              args |-> {1, 2}, status |-> FALSE, text |-> 0]

\* the command pipeline across connection attempts: one caller passing PipeRetryArg
InitPipe ==
    /\ Start
    /\ gxin = NoInput
    /\ file = <<>>
    /\ lim = [calls |-> 1, cmds |-> PipeCmds, stray |-> PipeStray,
              reply |-> MaxReplyLines, args |-> {PipeRetryArg}, status |-> FALSE, text |-> 0]

\* one caller, any retryMax, commands but no stray line
InitFair ==
    /\ Start
    /\ gxin = NoInput
    /\ file = <<>>
    /\ lim = [calls |-> 1, cmds |-> MaxCmds, stray |-> 0, reply |-> MaxReplyLines,
              args |-> 0..MaxRetryArg, status |-> FALSE, text |-> 0]

\* one caller passing retryMax 2, and one getStatus()
InitStat ==
    /\ Start
    /\ gxin = NoInput
    /\ file = <<>>
    /\ lim = [calls |-> 1, cmds |-> 0, stray |-> 0, reply |-> StatReplyLines,
              args |-> {2}, status |-> TRUE, text |-> 0]

\* one caller passing retryMax 2, one print() of a container of one or of two
\* blocks, one send(); the device sends PrintText lines with text in its replies
InitPrint ==
    /\ Start
    /\ gxin = NoInput
    /\ file = <<>>
    /\ lim = [calls |-> 1, cmds |-> 1, stray |-> 0, reply |-> MaxReplyLines, args |-> {2},
              status |-> FALSE, text |-> PrintText, names |-> {<<"a">>},
              lens |-> {HeaderSize + 1, HeaderSize + 5000}]

\* one caller passing retryMax 2, one command of its own and one close()
InitClose ==
    /\ Start
    /\ gxin = NoInput
    /\ file = <<>>
    /\ lim = [calls |-> 1, cmds |-> MaxCmds, stray |-> 0, reply |-> MaxReplyLines,
              args |-> {2}, status |-> FALSE, text |-> 0]

\* a new instance; nothing else is called before print()
InitName ==
    /\ Start
    /\ gxin = NoInput
    /\ file = <<>>
    /\ lim = [calls |-> 0, cmds |-> 0, stray |-> 0, reply |-> 0, args |-> {},
              status |-> FALSE, text |-> 0]

\* a buffer of n bytes: zeros, or a pattern of non-zero bytes
Fill(n, p) == [i \in 1..n |-> IF p = 0 THEN 0 ELSE ((i * p) % 255) + 1]

\* toolpath lengths around the block boundaries, and those of the scenarios
FrameLens ==
    {1, 5000} \cup {k * BlockSize - HeaderSize + d : k \in 1..MaxBlocks, d \in {-1, 0, 1}}

\* print() given a long toolpath, with or without a thumbnail
InitFrame ==
    /\ Start
    /\ gxin \in [gcode : {Fill(n, p) : n \in FrameLens, p \in {0, 7}},
                  bmp : {<<>>, <<<<66, 77>>>>}, time : {0}, filament : {0}]
    /\ file = <<>>
    /\ lim = [calls |-> 0, cmds |-> 0, stray |-> 0, reply |-> 0, args |-> {},
              status |-> FALSE, text |-> 0]

\* every buffer of up to n bytes out of three
SomeBytes == {0, 32, 255}
Bufs(n) == UNION {[1..k -> SomeBytes] : k \in 0..n}

\* files not written by GXWriter: empty, a header cut short, a header with
\* another magic, and a well-formed file
Foreign ==
    LET valid == GXWriterOutput(<<71>>, <<>>, 0, 0)
    IN  {<<>>, SubSeq(valid, 1, HeaderSize - 1), [valid EXCEPT ![1] = 88], valid}

\* GXWriter given any short toolpath and thumbnail; GXReader given any file
InitCodec ==
    /\ Start
    /\ gxin \in [gcode : Bufs(MaxGcode), bmp : {<<>>} \cup {<<b>> : b \in Bufs(MaxBmp)},
                  time : {0, 7}, filament : {0, 9}]
    /\ file \in Foreign
    /\ lim = [calls |-> 0, cmds |-> 0, stray |-> 0, reply |-> 0, args |-> {},
              status |-> FALSE, text |-> 0]

\* one caller passing retryMax 2 and one print() of a container of one block;
\* the device sends PrintText lines with text in its replies
InitPrintFair ==
    /\ Start
    /\ gxin = NoInput
    /\ file = <<>>
    /\ lim = [calls |-> 1, cmds |-> 0, stray |-> 0, reply |-> MaxReplyLines, args |-> {2},
              status |-> FALSE, text |-> PrintText, names |-> {<<"a">>},
              lens |-> {HeaderSize + 1}]

\* one caller passing retryMax 2, SendCmds calls of send(), one unsolicited line
InitSend ==
    /\ Start
    /\ gxin = NoInput
    /\ file = <<>>
    /\ lim = [calls |-> 1, cmds |-> SendCmds, stray |-> 1, reply |-> MaxReplyLines,
              args |-> {2}, status |-> FALSE, text |-> 0]

\* two callers passing retryMax 1 or 2, one send()
InitSock ==
    /\ Start
    /\ gxin = NoInput
    /\ file = <<>>
    /\ lim = [calls |-> 2, cmds |-> 1, stray |-> 0, reply |-> MaxReplyLines,
              args |-> {1, 2}, status |-> FALSE, text |-> 0]

\* two callers passing retryMax 2, SendCmds calls of send() accepted, replies
\* of one line
InitSticky ==
    /\ Start
    /\ gxin = NoInput
    /\ file = <<>>
    /\ lim = [calls |-> 2, cmds |-> SendCmds, stray |-> 0, reply |-> 0,
              args |-> {2}, status |-> FALSE, text |-> 0]

Spec == Init /\ [][Next]_vars
SpecConn == InitConn /\ [][Next]_vars
SpecPipe == InitPipe /\ [][Next]_vars
SpecStat == InitStat /\ [][NextStat]_vars
SpecPrint == InitPrint /\ [][NextPrint]_vars
SpecClose == InitClose /\ [][NextClose]_vars
SpecName == InitName /\ [][NextName]_vars
SpecSend == InitSend /\ [][NextSend]_vars
SpecSock == InitSock /\ [][NextSend]_vars
SpecSticky == InitSticky /\ [][NextSend]_vars
SpecFrame == InitFrame /\ [][NextGx]_vars
SpecCodec == InitCodec /\ [][NextGx]_vars

\* what the timers of the code and of Node guarantee: the 2 s retry timer fires,
\* a socket that stays silent hits its inactivity timeout (1 s, then 5 s), and a
\* destroyed or ended socket emits "close"
Fairness ==
    \A c \in Calls :
        /\ WF_vars(RetryTimer(c))
        /\ WF_vars(SockTimeout(c))
        /\ WF_vars(SockClose(c))

SpecFair == InitFair /\ [][Next]_vars /\ Fairness

\* the same, and the zero-delay timer of _sendTimer fires
SpecPrintFair == InitPrintFair /\ [][NextPrintOnly]_vars /\ Fairness /\ WF_vars(FireSend)

\* ------------------------------------------------------------ properties

Written(i) == \E k \in DOMAIN wrote : wrote[k] = i
NCalled(i) == Cardinality({k \in DOMAIN cbs : cbs[k].id = i})
Called(i) == NCalled(i) > 0
InQueue(i) == \E k \in DOMAIN queue : queue[k] = i
Live == {c \in Calls : sock[c] # "none"}

\* C1: at most one command has been written to the socket without one of its
\* callbacks having been invoked (its terminal reply matched, or its failure).
C1_OneInFlight ==
    Cardinality({i \in 1..ncmd : Written(i) /\ ~Called(i)}) <= 1

\* C2: commands are written in enqueue order, and of the commands enqueued on one
\* connection none has its callback invoked before every command enqueued earlier
\* on that connection has had its own.
C2_InOrder ==
    /\ \A k \in 1..(Len(wrote) - 1) : wrote[k] < wrote[k + 1]
    /\ \A k \in DOMAIN cbs : \A i \in 1..(cbs[k].id - 1) :
           (enqAt[i] # 0 /\ enqAt[i] = enqAt[cbs[k].id])
               => \E j \in 1..(k - 1) : cbs[j].id = i

\* C3: every enqueued command is still queued, or is the in-flight command, or has
\* had exactly one callback invoked; none has had more than one.
C3_NoneLost ==
    \A i \in 1..ncmd :
        /\ NCalled(i) <= 1
        /\ InQueue(i) \/ next = i \/ NCalled(i) = 1

\* C4: a command enqueued on a connection and still queued when its socket closed
\* is never written, and once no send timer is pending any more its failure
\* callback has been invoked.
C4_QueueDrained ==
    \A i \in atClose :
        /\ ~Written(i)
        /\ pendingSend = 0 => \E k \in DOMAIN cbs : cbs[k].id = i /\ cbs[k].kind = "fail"

\* C10: the result given to a success callback is the lines received since the
\* previous terminal line (with the terminal line itself when text precedes its
\* "ok"), in arrival order, and all of it is the device's reply to that command.
C10_ResultIsOwnReply ==
    \A k \in DOMAIN cbs :
        cbs[k].kind = "ok" =>
            /\ cbs[k].out = IF cbs[k].term[1] = "okN"
                            THEN Append(cbs[k].heard, cbs[k].term) ELSE cbs[k].heard
            /\ cbs[k].term[2] = cbs[k].id
            /\ \A j \in DOMAIN cbs[k].out : cbs[k].out[j][2] \in {cbs[k].id, Stray}

\* C5: a _connect call made while Connecting or Connected is rejected with
\* 'already connecting' / 'already connected', the rejection reaches the caller's
\* catch, and no socket is made and no field of the instance changes.
C5_RejectedWhenBusy ==
    [][\A c \in Calls :
          (attempts'[c] = attempts[c] + 1 /\ state # "Disconnected") =>
              /\ lastErr'[c] = IF state = "Connecting" THEN "already connecting"
                                                       ELSE "already connected"
              /\ retry'[c] = retry[c] + 1
              /\ cphase'[c] \in {"waiting", "rejected"}
              /\ cphase'[c] = "rejected" => cerr'[c] = lastErr'[c]
              /\ UNCHANGED <<state, queue, timer, next, output, status, socket, sock,
                             conn_error, devq>>]_vars

\* C5 witness: a call was rejected with 'already connected' while a command was in flight
C5_Witness ==
    /\ ev.op \in {"connect", "retry"}
    /\ ev.r = "already connected"
    /\ next # 0

\* C6: a connect() called while another is in progress (this.state Connecting)
\* opens no socket for as long as that other call is unsettled, and the call that
\* was in progress never has an attempt of its own rejected with 'already
\* connecting'.
C6_SecondCallInert ==
    \A c \in Calls :
        /\ (/\ issuedIn[c] = "Connecting"
            /\ \E d \in Calls \ {c} : cphase[d] \in {"attempting", "waiting"})
               => sock[c] = "none"
        /\ issuedIn[c] = "Disconnected" => lastErr[c] # "already connecting"

\* C7: this.state becomes Connected only from Connecting, in the line handler, on
\* a terminal line that answers the M601 S1 written by the connect handler of an
\* open socket; the promise of _connect is resolved in that step and no other.
C7_ConnectedOnlyOnHelloOk ==
    [][/\ (state # "Connected" /\ state' = "Connected") =>
              /\ state = "Connecting"
              /\ ev'.op = "line"
              /\ ev'.r \in {"ok0", "okN"}
              /\ sock[ev'.c] = "open"
              /\ socket = ev'.c
              /\ devq[ev'.c] # <<>>
              /\ Head(devq[ev'.c]) = Hello
       /\ \A c \in Calls :
              (cphase[c] # "resolved" /\ cphase'[c] = "resolved") =>
                  (state = "Connecting" /\ state' = "Connected")]_vars

\* C7 witness: connected, the connect promise resolved, the hello answered
C7_Witness ==
    /\ state = "Connected"
    /\ cphase[1] = "resolved"
    /\ ev.op = "line"
    /\ devq[1] = <<>>

\* C8: a timeout or a socket error leaves the socket closing, whatever the state;
\* the close event leaves the state Disconnected and the status offline; whenever
\* no socket is left the state is Disconnected, and the next _connect is accepted.
C8_CloseDisconnects ==
    /\ [](Live = {} => (state = "Disconnected" /\ status = "offline"))
    /\ [][/\ ev'.op \in {"sock_timeout", "sock_error"} =>
                 (sock[ev'.c] \in {"connecting", "open"} /\ sock'[ev'.c] = "closing")
          /\ ev'.op = "sock_close" =>
                 (state' = "Disconnected" /\ status' = "offline" /\ sock'[ev'.c] = "none")
          /\ (ev.op = "sock_close" /\ ev'.op \in {"connect", "retry"}) =>
                 (ev'.r = "socket" /\ sock'[ev'.c] = "connecting")]_vars

\* C8 witness: an established connection whose status getStatus() had filled in
\* has closed, and the status is offline again
C8_Witness ==
    /\ ev.op = "sock_close"
    /\ cphase[1] = "resolved"
    /\ gsRes = "resolved"
    /\ state = "Disconnected"
    /\ status = "offline"

\* C9: connect() makes at most retries attempts (5 when no retryMax is given), makes
\* none after an attempt succeeded, rejects only after its last attempt and with
\* that attempt's error, and a call that is in progress is eventually settled.
C9_BoundedRetry ==
    /\ \A c \in Calls :
           (cphase[c] \in {"attempting", "waiting"}) ~> (cphase[c] \in {"resolved", "rejected"})
    /\ [](\A c \in Calls :
            /\ cphase[c] # "idle" =>
                   retries[c] = IF given[c] = 0 THEN DefaultRetries ELSE given[c]
            /\ attempts[c] <= retries[c]
            /\ cphase[c] = "rejected" =>
                   (attempts[c] = retries[c] /\ cerr[c] = lastErr[c])
            /\ cphase[c] = "attempting" => sock[c] # "none")
    /\ [][\A c \in Calls :
            /\ cphase[c] \in {"resolved", "rejected"} =>
                   (attempts'[c] = attempts[c] /\ cphase'[c] = cphase[c] /\ cerr'[c] = cerr[c])
            /\ (cphase[c] \in {"attempting", "idle"} /\ cphase'[c] = "resolved") =>
                   attempts'[c] = attempts[c]]_vars

\* C9 witness: the default of 5 attempts was used up and the call rejected
C9_Witness ==
    /\ given[1] = 0
    /\ cphase[1] = "rejected"
    /\ attempts[1] = DefaultRetries

\* C11: a failure callback invoked by the close handler for the in-flight command
\* carries the socket error observed on that socket or, when none was observed,
\* a closure reason: never the null that conn_error starts with.
C11_CloseErrorNeverNull ==
    \A k \in DOMAIN cbs : cbs[k].kind = "fail" => cbs[k].err # "null"

\* the commands getStatus() has enqueued, and the k-th of them
StatusIds == {i \in 1..ncmd : meta[i].by = "getStatus"}
StatusNth(k) == CHOOSE i \in StatusIds : Cardinality({j \in StatusIds : j < i}) = k - 1
Resolved(i) == \E k \in DOMAIN cbs : cbs[k].id = i /\ cbs[k].kind = "ok"
Failed(i) == \E k \in DOMAIN cbs : cbs[k].id = i /\ cbs[k].kind = "fail"

\* C12: getStatus() enqueues at most four commands, M115, M119, M27, M105 in that
\* order, each only after the one before it was resolved; when one of them fails
\* it is the last one enqueued and getStatus() is rejected with its error; when
\* getStatus() resolves all four were enqueued and resolved.
C12_FourInOrder ==
    LET n == Cardinality(StatusIds)
    IN  /\ n <= 4
        /\ \A k \in 1..n : meta[StatusNth(k)].name = <<"M115", "M119", "M27", "M105">>[k]
        /\ \A k \in 2..n : Resolved(StatusNth(k - 1))
        /\ \A k \in 1..n :
               Failed(StatusNth(k)) =>
                   /\ k = n
                   /\ gsRes = "rejected"
                   /\ \E j \in DOMAIN cbs :
                          cbs[j].id = StatusNth(k) /\ cbs[j].kind = "fail" /\ cbs[j].err = gsErr
        /\ gsRes = "resolved" => (n = 4 /\ \A k \in 1..4 : Resolved(StatusNth(k)))

\* C12 witness: the first two requests were resolved, the third failed, and
\* getStatus() was rejected without a fourth
C12_Witness ==
    /\ Cardinality(StatusIds) = 3
    /\ Failed(StatusNth(3))
    /\ gsRes = "rejected"

\* whether command i was enqueued by print()
IsPrint(i) == meta[i].by = "print"

\* C13: print() enqueues the seven handshake commands, M28 with the container
\* length and the path, the blocks 0..n-1 with n the least number of 4096-byte
\* blocks that hold the container, M29, M23 with the same path, M27, and nothing
\* else; what is written of them is written in that order with no step left out
\* in between, and no command of another operation is written between two of them.
C13_PrintSequence ==
    prArg # <<>> =>
        LET f == prArg[3]
            L == prArg[2]
            n == (L + 4095) \div 4096
        IN  /\ \A i \in 1..ncmd : IsPrint(i) <=> (f <= i /\ i <= f + 10 + n)
            /\ [i \in 1..7 |-> meta[f + i - 1].name]
                   = <<"M115", "M650", "M115", "M114", "M27", "M119", "M105">>
            /\ meta[f + 7].name = "M28"
            /\ meta[f + 7].arg[1] = L
            /\ \A i \in 0..(n - 1) : meta[f + 8 + i].name = "block" /\ meta[f + 8 + i].idx = i
            /\ meta[f + 8 + n].name = "M29"
            /\ meta[f + 9 + n].name = "M23"
            /\ meta[f + 9 + n].arg = <<meta[f + 7].arg[2]>>
            /\ meta[f + 10 + n].name = "M27"
            /\ \A k \in 1..(Len(wrote) - 1) :
                   IsPrint(wrote[k]) =>
                       IF IsPrint(wrote[k + 1])
                       THEN wrote[k + 1] = wrote[k] + 1
                       ELSE \A j \in (k + 1)..Len(wrote) : ~IsPrint(wrote[j])

\* C13 witness: the whole sequence of a two-block container was written, the last
\* step resolved, and so was a command sent by the caller
C13_Witness ==
    /\ prRes = "resolved"
    /\ Cardinality({k \in DOMAIN wrote : IsPrint(wrote[k])}) = 13
    /\ \E k \in DOMAIN wrote : meta[wrote[k]].by = "user"

\* the callbacks of print()'s commands, as positions in cbs
PrintFails == {k \in DOMAIN cbs : IsPrint(cbs[k].id) /\ cbs[k].kind = "fail"}
PrintPollDone == \E k \in DOMAIN cbs : IsPrint(cbs[k].id) /\ meta[cbs[k].id].last

\* the outputs of the steps resolved among the first k callbacks, concatenated
RECURSIVE Gathered(_)
Gathered(k) ==
    IF k = 0 THEN <<>>
    ELSE Gathered(k - 1) \o
         (IF IsPrint(cbs[k].id) /\ ~meta[cbs[k].id].last /\ cbs[k].kind = "ok"
          THEN cbs[k].out ELSE <<>>)

\* C14: print() is settled only when a callback of its final M27 has been invoked;
\* it resolves only when no step failed, with the path and the outputs of the
\* steps concatenated in order; it rejects with the error of the first step that
\* failed; and once a step has failed and the socket is gone with no send timer
\* pending, the remaining steps have been run and print() is rejected.
C14_StickyFailure ==
    /\ prRes \in {"resolved", "rejected"} => PrintPollDone
    /\ prRes = "resolved" =>
           /\ PrintFails = {}
           /\ prVal = <<meta[prArg[3] + 7].arg[2], Gathered(Len(cbs))>>
    /\ prRes = "rejected" =>
           /\ PrintFails # {}
           /\ prVal = <<cbs[CHOOSE k \in PrintFails : \A j \in PrintFails : k <= j].err>>
    /\ (PrintFails # {} /\ Live = {} /\ pendingSend = 0) => prRes = "rejected"


\* C15: close() asks the device to release the session and then ends the
\* socket, and the socket is still ended when the release fails: a close()
\* rejected with the release's failure, the connection's socket still live,
\* has called socket.end().
C15_EndsSocketOnReleaseFailure ==
    (/\ clRes = "rejected"
     /\ clErr # "TypeError"
     /\ socket # 0
     /\ sock[socket] \in {"connecting", "open"}) => ended


\* the path named by print()'s M28, and the path named by its M23
PathOf(name) ==
    LET i == CHOOSE i \in DOMAIN meta : meta[i].by = "print" /\ meta[i].name = name
    IN  meta[i].arg[Len(meta[i].arg)]

\* path ends with ".gx"
EndsWithGx(path) == Len(path) >= 3 /\ SubSeq(path, Len(path) - 2, Len(path)) = Gx

\* C20: whatever filename print() is given, the path of its M28 and of its M23
\* is the same, starts with the prefix 0:/user/ and ends with ".gx".
C20_PathNormalised ==
    prRes # "none" =>
        /\ PathOf("M28") = PathOf("M23")
        /\ PathOf("M28")[1] = " 0:/user/"
        /\ EndsWithGx(PathOf("M28"))


\* the number a block records at bytes pos + 1 .. pos + 4, big-endian
BE32(b, pos) == b[pos + 1] * 16777216 + b[pos + 2] * 65536 + b[pos + 3] * 256 + b[pos + 4]

\* ceil(L / 4096), from the quotient and the remainder
FrameCount(L) == L \div BlockSize + (IF L % BlockSize = 0 THEN 0 ELSE 1)

\* the true length of block k of the n blocks of a buffer of L bytes
TrueLen(L, k) ==
    IF k < FrameCount(L) \/ L % BlockSize = 0 THEN BlockSize ELSE L % BlockSize

\* C16: a buffer of L bytes is framed into ceil(L/4096) blocks, indexed from 0
\* upwards; each block but the last records the length 4096 and the last one
\* L mod 4096 (4096 when that is 0); each carries 4096 bytes of payload, the
\* bytes of the buffer followed by zeros, and the checksum of the true bytes.
C16_BlockFraming ==
    LET L == Len(buffer)
    IN  /\ Len(blocks) <= FrameCount(L)
        /\ framed => Len(blocks) = FrameCount(L)
        /\ \A k \in 1..Len(blocks) :
              LET b == blocks[k]
                  t == TrueLen(L, k)
                  from == (k - 1) * BlockSize
              IN  /\ Len(b) = 16 + BlockSize
                  /\ BE32(b, 4) = k - 1
                  /\ BE32(b, 8) = t
                  /\ SubSeq(b, 17, 16 + t) = SubSeq(buffer, from + 1, from + t)
                  /\ \A i \in (17 + t)..(16 + BlockSize) : b[i] = 0
                  /\ BE32(b, 12) = crc32(SubSeq(buffer, from + 1, from + t))

\* a buffer framed into two blocks, the second one partly padding
C16_Witness ==
    /\ framed
    /\ Len(blocks) = 2
    /\ BE32(blocks[2], 8) < BlockSize
    /\ blocks[2][17] # 0

\* the toolpath of scenario B: 5000 bytes, no thumbnail
ScenarioB == Len(gxin.gcode) = 5000 /\ gxin.bmp = <<>> /\ buffer # <<>>

\* C17 (as the code has it): a 5000-byte toolpath without a thumbnail is
\* encoded in 58 + 5000 bytes and framed into exactly 2 blocks, of true
\* lengths 4096 and 962.
C17_ScenarioB ==
    ScenarioB =>
        /\ Len(buffer) = HeaderSize + 5000
        /\ framed => /\ Len(blocks) = 2
                     /\ BE32(blocks[1], 8) = 4096
                     /\ BE32(blocks[2], 8) = 962

\* C17 (as stated): the same, with true lengths 4096 and 916.
C17_ScenarioB_AsStated ==
    ScenarioB =>
        /\ Len(buffer) = HeaderSize + 5000
        /\ framed => /\ Len(blocks) = 2
                     /\ BE32(blocks[1], 8) = 4096
                     /\ BE32(blocks[2], 8) = 916

\* scenario B encoded and framed
C17_Witness == ScenarioB /\ framed

\* C18: GXReader given the output of GXWriter for a non-empty toolpath finds
\* bmpoff = 58 and gc1off = gc2off = 58 + the thumbnail's length, within the
\* output, and extract() gives back the thumbnail and the toolpath.
C18_RoundTrip ==
    (buffer # <<>> /\ rbuf = buffer /\ Len(gxin.gcode) > 0) =>
        /\ thrown = "none"
        /\ struct # <<>>
        /\ struct[1].bmpoff = HeaderSize
        /\ struct[1].gc1off = HeaderSize + Len(bmpBytes(gxin.bmp))
        /\ struct[1].gc2off = struct[1].gc1off
        /\ struct[1].bmpoff <= struct[1].gc1off
        /\ struct[1].gc2off <= Len(buffer)
        /\ extracted # <<>> => extracted = <<bmpBytes(gxin.bmp), gxin.gcode>>

\* a toolpath and a non-empty thumbnail written, read back and extracted
C18_Witness ==
    /\ buffer # <<>>
    /\ rbuf = buffer
    /\ Len(gxin.gcode) > 0
    /\ Len(bmpBytes(gxin.bmp)) > 0
    /\ extracted # <<>>

\* GXReader has run
Decoded == thrown # "none" \/ struct # <<>>

\* C19: GXReader given a buffer shorter than the 58-byte header, or one whose
\* first 16 bytes are not the magic, fails (its constructor throws, whatever
\* the error's class) and produces no header, thumbnail or toolpath.
C19_FormatError ==
    (Decoded /\ (Len(rbuf) < HeaderSize \/ slice(rbuf, 0, 16) # Magic)) =>
        /\ thrown # "none"
        /\ struct = <<>>
        /\ extracted = <<>>


\* C21: a print() promise always eventually settles, resolved or rejected
\* (timers fire, and every socket is sooner or later timed out and closed).
C21_PrintSettles == (prRes = "pending") ~> (prRes # "pending")


\* command i was written and is no longer in flight, and neither of its
\* callbacks was invoked: nothing refers to its callbacks any more
Lost(i) == Written(i) /\ ~Called(i) /\ next # i

\* C22: an "ok" line that arrives while Connected with no command in flight
\* invokes no callback, sets no error and leaves the queue, the in-flight slot
\* and the state as they are; and no command that was queued at that moment
\* loses its callbacks afterwards.
C22_AnomalyHarmless ==
    /\ [][(ev'.op = "line" /\ ev'.r # "p" /\ state = "Connected" /\ next = 0) =>
             /\ cbs' = cbs
             /\ queue' = queue
             /\ state' = state
             /\ error' = error
             /\ next' = next]_vars
    /\ [](\A i \in atAnomaly : ~Lost(i))


\* C23: at most one socket of the instance is not closed at any time; _connect
\* makes a socket only in state Disconnected, with no socket left; and the
\* state becomes Disconnected only on the close event of the one socket there is.
C23_OneSocket ==
    /\ [](Cardinality(Live) <= 1)
    /\ [][/\ (ev'.op \in {"connect", "retry"} /\ ev'.r = "socket") =>
                 (state = "Disconnected" /\ Live = {} /\ Live' = {ev'.c})
          /\ (\E c \in Calls : sock[c] = "none" /\ sock'[c] # "none") =>
                 (ev'.op \in {"connect", "retry"} /\ ev'.r = "socket")
          /\ (state # "Disconnected" /\ state' = "Disconnected") =>
                 (ev'.op = "sock_close" /\ Live = {ev'.c} /\ Live' = {})]_vars

\* C23 witness: the first socket was closed and a retry has made the second
C23_Witness ==
    /\ ev.op = "retry"
    /\ ev.r = "socket"
    /\ attempts[1] >= 2
    /\ Live = {1}


\* C24: this.error changes only when _send runs while the state is not
\* Connected, which sets it to 'disconnected'; nothing clears it afterwards,
\* neither init() nor a later connection; and from then on every send() is
\* rejected with 'disconnected' and enqueues nothing, whatever the state.
C24_ErrorSticky ==
    [][/\ error # "none" => error' = error
       /\ error' # error =>
              (ev'.op = "_send" /\ state # "Connected" /\ error' = "disconnected")
       /\ (ev'.op = "send" /\ error = "disconnected") =>
              /\ ev'.r = "disconnected"
              /\ queue' = queue
              /\ ncmd' = ncmd
              /\ timer' = timer
              /\ pendingSend' = pendingSend
              /\ next' = next
              /\ wrote' = wrote]_vars

\* C24 witness: a send() rejected with 'disconnected' on an instance that is
\* Connected again
C24_Witness ==
    /\ ev.op = "send"
    /\ ev.r = "disconnected"
    /\ state = "Connected"
    /\ error = "disconnected"


\* C25: send() called in state Disconnected or Connecting with no error set is
\* rejected with 'not connected' and changes nothing: queue, in-flight
\* command, send timer and socket are as before, nothing is enqueued and
\* nothing is written.
C25_NotConnectedInert ==
    [][(ev'.op = "send" /\ state \in {"Disconnected", "Connecting"} /\ error = "none") =>
           /\ ev'.r = "not connected"
           /\ queue' = queue
           /\ next' = next
           /\ timer' = timer
           /\ pendingSend' = pendingSend
           /\ socket' = socket
           /\ sock' = sock
           /\ devq' = devq
           /\ ncmd' = ncmd
           /\ wrote' = wrote
           /\ cbs' = cbs
           /\ state' = state
           /\ error' = error]_vars

\* C25 witness: a send() rejected with 'not connected' while the handshake of
\* an open socket is awaited
C25_Witness ==
    /\ ev.op = "send"
    /\ ev.r = "not connected"
    /\ state = "Connecting"
    /\ socket # 0
    /\ sock[socket] = "open"
    /\ error = "none"

====
